---- MODULE Spec2Model ----
(***************************************************************************)
(* Model of jsondata's ordered key/value vector: src/src/kv.rs and         *)
(* src/src/property.rs.  Both files hold the same two functions over       *)
(* structurally identical entry types (KeyValue / Property):               *)
(*                                                                         *)
(*   search_by_key(obj, key)      binary search by key, Ok(i) / Err(i)     *)
(*   upsert_object_key(obj, kv)   replace at Ok(i), insert at Err(i)       *)
(*                                                                         *)
(* The search is modelled statement by statement (pc follows the control   *)
(* position inside search_by_key), so that the loop variables size, base,  *)
(* half and mid are visible in every iteration.  Indices are 0-based as in *)
(* the source; At(s, i) reads element i of a TLA+ sequence.                *)
(*                                                                         *)
(* Keys are the integers 1..NKeys: String's Ord is a total order and the   *)
(* code only ever uses the outcome of item.cmp(key).  Values are opaque to *)
(* the code (never inspected), they are the integers 1..NVals.             *)
(***************************************************************************)
EXTENDS Integers, Sequences, FiniteSets

\* ---- bounds of the model --------------------------------------------------
NKeys == 3
NVals == 2
MaxLen == 3

Keys == 1..NKeys
Vals == 1..NVals

\* ---- the entry type -------------------------------------------------------
\* KeyValue(String, Json) / Property(String, Json)
KeyValue(k, v) == [key |-> k, value |-> v]

Entries == [key : Keys, value : Vals]

\* key_ref(): borrow the key of an entry.
key_ref(e) == e.key

\* value_ref(): borrow the value of an entry.
value_ref(e) == e.value

\* str::cmp on two keys: Less, Equal or Greater.
Cmp(a, b) == IF a < b THEN "Less" ELSE IF a = b THEN "Equal" ELSE "Greater"

\* obj[i] with the source's 0-based index.
At(s, i) == s[i + 1]

\* Result<usize, usize>; NoResult while search_by_key has not returned.
Ok(i) == [tag |-> "Ok", off |-> i]
Err(i) == [tag |-> "Err", off |-> i]
NoResult == [tag |-> "None", off |-> 0]

\* The arguments while no call has been made.
NoKey == 0
NoVal == 0

\* ---- pieces of search_by_key ---------------------------------------------
\* let half = size / 2;
HalfThird(sz) == sz \div 3
Half(sz) == sz \div 2

\* let mid = base + half;
MidPlusOne(b, h) == b + h + 1
Mid(b, h) == b + h

\* base = if cmp == Greater { base } else { mid };
NextBaseOnLess(c, b, m) == IF c = "Less" THEN m ELSE b
NextBasePastMid(c, b, m) == IF c = "Greater" THEN b ELSE m + 1
NextBase(c, b, m) == IF c = "Greater" THEN b ELSE m

\* size -= half;
NextSizeHalf(sz, h) == h
NextSize(sz, h) == sz - h

\* if cmp == Equal { Ok(base) } else { Err(base + (cmp == Less) as usize) }
FinalResultNoBump(c, b) == IF c = "Equal" THEN Ok(b) ELSE Err(b)
FinalResultLooseOk(c, b) == IF c # "Greater" THEN Ok(b) ELSE Err(b)
FinalResult(c, b) ==
    IF c = "Equal" THEN Ok(b) ELSE Err(b + (IF c = "Less" THEN 1 ELSE 0))

\* ---- pieces of upsert_object_key -----------------------------------------
\* obj[off] = kv
ReplaceKeepOld(s, off, e) == s
Replace(s, off, e) == [s EXCEPT ![off + 1] = e]

\* obj.insert(off, kv)
InsertAfter(s, off, e) ==
    IF off < Len(s)
    THEN SubSeq(s, 1, off + 1) \o <<e>> \o SubSeq(s, off + 2, Len(s))
    ELSE Append(s, e)
InsertOver(s, off, e) ==
    IF off < Len(s) THEN [s EXCEPT ![off + 1] = e] ELSE Append(s, e)
Insert(s, off, e) == SubSeq(s, 1, off) \o <<e>> \o SubSeq(s, off + 1, Len(s))

\* ---- state ----------------------------------------------------------------
VARIABLES
    obj,      \* the Vec<KeyValue> the functions work on
    pc,       \* control position: idle, while, body, final, ret, panic
    op,       \* the public function running (or last run): search / upsert
    key,      \* search_by_key's key argument
    val,      \* the value of upsert_object_key's kv argument
    size,     \* search_by_key's local size
    base,     \* search_by_key's local base
    half,     \* search_by_key's local half
    mid,      \* search_by_key's local mid
    result,   \* search_by_key's return value
    reads,    \* number of elements of obj read by the running search
    pre,      \* obj as it was when the running (or last) call began
    again     \* the running (or last) upsert follows an upsert of the same key

vars == <<obj, pc, op, key, val, size, base, half, mid, result, reads, pre,
          again>>

\* All sequences over S of length at most n.
SeqsUpTo(S, n) == UNION {[1..m -> S] : m \in 0..n}

TypeOK ==
    /\ obj \in Seq(Entries)
    /\ Len(obj) <= MaxLen
    /\ pre \in Seq(Entries)
    /\ pc \in {"idle", "while", "body", "final", "ret", "panic"}
    /\ op \in {"none", "search", "upsert"}
    /\ key \in Keys \cup {NoKey}
    /\ val \in Vals \cup {NoVal}
    /\ size \in Nat /\ base \in Nat /\ half \in Nat /\ mid \in Nat
    /\ reads \in Nat
    /\ again \in BOOLEAN

InitWith(o) ==
    /\ obj = o
    /\ pc = "idle"
    /\ op = "none"
    /\ key = NoKey
    /\ val = NoVal
    /\ size = 0 /\ base = 0 /\ half = 0 /\ mid = 0
    /\ result = NoResult
    /\ reads = 0
    /\ pre = o
    /\ again = FALSE

\* A freshly built object: Vec::new().
Init == InitWith(<< >>)

\* search_by_key is public and takes any vector: every input shape.
InitAny == \E o \in SeqsUpTo(Entries, MaxLen) : InitWith(o)

\* ---- search_by_key --------------------------------------------------------
\* let mut size = obj.len(); if size == 0 { return Err(0) }; let mut base = 0;
Enter(k) ==
    /\ key' = k
    /\ size' = Len(obj)
    /\ base' = 0
    /\ half' = 0
    /\ mid' = 0
    /\ reads' = 0
    /\ pre' = obj
    /\ IF Len(obj) = 0
       THEN /\ result' = Err(0)
            /\ pc' = "ret"
       ELSE /\ result' = NoResult
            /\ pc' = "while"

\* A caller invokes search_by_key(obj, k).
CallSearch(k) ==
    /\ pc = "idle"
    /\ op' = "search"
    /\ val' = NoVal
    /\ Enter(k)
    /\ again' = FALSE
    /\ UNCHANGED obj

\* A caller invokes upsert_object_key(obj, KeyValue(k, v)); its first
\* statement is the call of search_by_key(obj, kv.key_ref()).
CallUpsert(k, v) ==
    /\ pc = "idle"
    /\ op' = "upsert"
    /\ val' = v
    /\ Enter(k)
    /\ again' = (op = "upsert" /\ key = k)
    /\ UNCHANGED obj

\* while size > 1 { let half = size / 2; let mid = base + half;
WhileTest ==
    /\ pc = "while"
    /\ IF size > 1
       THEN /\ half' = Half(size)
            /\ mid' = Mid(base, Half(size))
            /\ pc' = "body"
       ELSE /\ pc' = "final"
            /\ UNCHANGED <<half, mid>>
    /\ UNCHANGED <<obj, op, key, val, size, base, result, reads, pre, again>>

\* let item = obj[mid].key_ref(); let cmp = item.cmp(key);
\* base = if cmp == Greater { base } else { mid }; size -= half; }
LoopBody ==
    /\ pc = "body"
    /\ IF mid >= Len(obj)
       THEN /\ pc' = "panic"
            /\ UNCHANGED <<size, base, reads>>
       ELSE /\ base' = NextBase(Cmp(key_ref(At(obj, mid)), key), base, mid)
            /\ size' = NextSize(size, half)
            /\ reads' = reads + 1
            /\ pc' = "while"
    /\ UNCHANGED <<obj, op, key, val, half, mid, result, pre, again>>

\* let item = obj[base].key_ref(); let cmp = item.cmp(key);
\* if cmp == Equal { Ok(base) } else { Err(base + (cmp == Less) as usize) }
Final ==
    /\ pc = "final"
    /\ IF base >= Len(obj)
       THEN /\ pc' = "panic"
            /\ UNCHANGED <<result, reads>>
       ELSE /\ result' = FinalResult(Cmp(key_ref(At(obj, base)), key), base)
            /\ reads' = reads + 1
            /\ pc' = "ret"
    /\ UNCHANGED <<obj, op, key, val, size, base, half, mid, pre, again>>

\* search_by_key returns to a caller other than upsert_object_key.
ReturnSearch ==
    /\ pc = "ret"
    /\ op = "search"
    /\ pc' = "idle"
    /\ UNCHANGED <<obj, op, key, val, size, base, half, mid, result, reads,
                   pre, again>>

\* ---- upsert_object_key ----------------------------------------------------
\* match search_by_key(..) { Ok(off) => obj[off] = kv,
\*                           Err(off) => obj.insert(off, kv) }
ApplyUpsert ==
    /\ pc = "ret"
    /\ op = "upsert"
    /\ result.tag = "Err" => Len(obj) < MaxLen    \* the model's cap on growth
    /\ IF result.tag = "Ok"
       THEN IF result.off >= Len(obj)
            THEN pc' = "panic" /\ UNCHANGED obj
            ELSE pc' = "idle" /\ obj' = Replace(obj, result.off, KeyValue(key, val))
       ELSE IF result.off > Len(obj)
            THEN pc' = "panic" /\ UNCHANGED obj
            ELSE pc' = "idle" /\ obj' = Insert(obj, result.off, KeyValue(key, val))
    /\ UNCHANGED <<op, key, val, size, base, half, mid, result, reads, pre,
                   again>>

Next ==
    \/ \E k \in Keys : CallSearch(k)
    \/ \E k \in Keys, v \in Vals : CallUpsert(k, v)
    \/ WhileTest
    \/ LoopBody
    \/ Final
    \/ ReturnSearch
    \/ ApplyUpsert

\* Objects built by upserts from an empty vector.
Spec == Init /\ [][Next]_vars

\* Any vector as input.
SpecAny == InitAny /\ [][Next]_vars

\* search_by_key alone, called directly on the vector.
NextSearch ==
    \/ \E k \in Keys : CallSearch(k)
    \/ WhileTest
    \/ LoopBody
    \/ Final
    \/ ReturnSearch

\* Searches of any vector.  A search runs to completion once called: the code
\* is sequential and nothing suspends a call between two statements.
FairSearchSpec ==
    /\ InitAny
    /\ [][NextSearch]_vars
    /\ WF_vars(WhileTest)
    /\ WF_vars(LoopBody)
    /\ WF_vars(Final)

\* ---- vocabulary of the properties ----------------------------------------
\* for all positions i < j, entries[i].key < entries[j].key
StrictlySorted(s) ==
    \A i, j \in 1..Len(s) : i < j => key_ref(s[i]) < key_ref(s[j])

\* ascending with equal neighbours allowed
Sorted(s) ==
    \A i, j \in 1..Len(s) : i < j => key_ref(s[i]) <= key_ref(s[j])

\* the 0-based positions of s that hold key k
Matches(s, k) == {i \in 0..(Len(s) - 1) : key_ref(At(s, i)) = k}

\* the number of entries of s whose key is below k
Below(s, k) == Cardinality({i \in 0..(Len(s) - 1) : key_ref(At(s, i)) < k})

\* the largest element of a non-empty set of naturals
Max(S) == CHOOSE m \in S : \A n \in S : n <= m

\* the entries of s with a key other than k, in their order
Others(s, k) == SelectSeq(s, LAMBDA e : key_ref(e) # k)

\* search_by_key has just returned
Returned == pc = "ret"

\* upsert_object_key has just returned
Upserted == pc = "idle" /\ op = "upsert"

\* ---- C1 -------------------------------------------------------------------
\* C1: starting from an empty vector, after any sequence of upsert_object_key
\* calls the vector is strictly sorted ascending by key (so no key repeats).
C1_UpsertKeepsStrictlySorted == StrictlySorted(obj)

\* an upsert has put a new smallest key in front of two entries
C1_Witness ==
    /\ Upserted
    /\ Len(pre) >= 2
    /\ result = Err(0)
    /\ Len(obj) = Len(pre) + 1

\* ---- C2 -------------------------------------------------------------------
\* C2: on a strictly sorted vector, upsert (k, v1) followed by upsert (k, v2)
\* leaves exactly one entry with key k, holding v2, and the length is the
\* length right after the first upsert (pre is the vector between the two).
C2_LastWriteWins ==
    (Upserted /\ again) =>
        /\ Cardinality(Matches(obj, key)) = 1
        /\ \A i \in Matches(obj, key) : value_ref(At(obj, i)) = val
        /\ Len(obj) = Len(pre)

\* the second upsert of a key has overwritten a different value
C2_Witness ==
    /\ Upserted
    /\ again
    /\ Len(obj) >= 2
    /\ \E i \in Matches(pre, key) : value_ref(At(pre, i)) # val

\* ---- C3 -------------------------------------------------------------------
\* C3: on a strictly sorted vector, Err(i) is the insertion point: i is in
\* 0..len, all entries before i have a key below the probe and all entries
\* from i on have a key above it; a probe below all keys gives Err(0), a probe
\* above all keys gives Err(len).
C3_ErrIsInsertionPoint ==
    (Returned /\ StrictlySorted(pre) /\ result.tag = "Err") =>
        /\ result.off \in 0..Len(pre)
        /\ \A i \in 0..(Len(pre) - 1) :
              /\ i < result.off => key_ref(At(pre, i)) < key
              /\ i >= result.off => key_ref(At(pre, i)) > key
        /\ (\A i \in 0..(Len(pre) - 1) : key < key_ref(At(pre, i)))
              => result.off = 0
        /\ (\A i \in 0..(Len(pre) - 1) : key > key_ref(At(pre, i)))
              => result.off = Len(pre)

\* a probe that falls strictly between two entries of a sorted vector
C3_Witness ==
    /\ Returned
    /\ StrictlySorted(pre)
    /\ Len(pre) >= 2
    /\ result.tag = "Err"
    /\ result.off > 0
    /\ result.off < Len(pre)

\* ---- C4 -------------------------------------------------------------------
\* C4: on a vector with distinct ascending keys, the search for the key at
\* position i returns Ok(i); a present key is never reported as Err.
C4_PresentKeyFoundAtItsPosition ==
    (Returned /\ StrictlySorted(pre)) =>
        \A i \in 0..(Len(pre) - 1) :
            key_ref(At(pre, i)) = key => result = Ok(i)

\* the last key of a three-entry sorted vector was found
C4_Witness ==
    /\ Returned
    /\ StrictlySorted(pre)
    /\ Len(pre) >= 3
    /\ result = Ok(Len(pre) - 1)

\* ---- C5 -------------------------------------------------------------------
\* C5: no out-of-bounds access for any vector (empty, sorted, unsorted, with
\* duplicates): the index read in the loop (mid) and the index read after it
\* (base) are below the length, the empty vector gives Err(0) without a read,
\* and upsert's replace index is below the length and its insert index at
\* most the length.
C5_NoOutOfBounds ==
    /\ pc # "panic"
    /\ pc = "body" => mid < Len(obj)
    /\ pc = "final" => base < Len(obj)
    /\ (Returned /\ Len(pre) = 0) => (result = Err(0) /\ reads = 0)
    /\ (Returned /\ op = "upsert" /\ result.tag = "Ok") => result.off < Len(obj)
    /\ (Returned /\ op = "upsert" /\ result.tag = "Err") => result.off <= Len(obj)

\* the loop is about to read the last element of an unsorted vector
C5_Witness ==
    /\ pc = "body"
    /\ ~Sorted(obj)
    /\ Len(obj) >= 3
    /\ mid = Len(obj) - 1

\* ---- C6 -------------------------------------------------------------------
\* C6: on a strictly sorted vector, upsert of (k, v) changes nothing but the
\* entry for k: the entries with other keys keep key, value and order; the
\* entries before the replace/insert position keep their positions; if k was
\* present the length is unchanged, otherwise it grows by one and the later
\* entries move one position up.
C6_UpsertFrame ==
    (Upserted /\ StrictlySorted(pre)) =>
        LET p == Below(pre, key) IN
        /\ Others(obj, key) = Others(pre, key)
        /\ \A i \in 0..(p - 1) : At(obj, i) = At(pre, i)
        /\ At(obj, p) = KeyValue(key, val)
        /\ IF Matches(pre, key) # {}
           THEN /\ Len(obj) = Len(pre)
                /\ \A i \in (p + 1)..(Len(pre) - 1) : At(obj, i) = At(pre, i)
           ELSE /\ Len(obj) = Len(pre) + 1
                /\ \A i \in p..(Len(pre) - 1) : At(obj, i + 1) = At(pre, i)

\* an absent key was inserted between two entries
C6_Witness ==
    /\ Upserted
    /\ StrictlySorted(pre)
    /\ Len(pre) >= 2
    /\ Matches(pre, key) = {}
    /\ Below(pre, key) = 1
    /\ Len(obj) = Len(pre) + 1

\* ---- C7 -------------------------------------------------------------------
\* C7: for any vector, Ok(i) means i is below the length and entry i holds
\* the probe key.
C7_OkHoldsProbeKey ==
    (Returned /\ result.tag = "Ok") =>
        /\ result.off < Len(pre)
        /\ key_ref(At(pre, result.off)) = key

\* a key was found in a vector that is not sorted
C7_Witness ==
    /\ Returned
    /\ result.tag = "Ok"
    /\ ~Sorted(pre)

C9_LoopState ==
    /\ pc \in {"while", "body", "final"} => size >= 1
    /\ pc \in {"while", "body", "final"} => reads + size <= Len(obj)
    /\ pc = "body" => (size > 1 /\ half >= 1)
    /\ pc = "final" => size = 1

C9_LoopStep ==
    /\ (pc = "body" /\ pc' = "while") => (size' < size /\ size' >= 1)
    /\ (pc = "final" /\ pc' = "ret") =>
          (reads' = reads + 1 /\ result'.tag \in {"Ok", "Err"})

C9_LoopTerminates ==
    /\ []C9_LoopState
    /\ [][C9_LoopStep]_vars
    /\ (pc = "while") ~> (pc = "ret")

\* the loop has ended after two iterations
C9_Witness ==
    /\ pc = "final"
    /\ reads >= 2
    /\ size = 1

\* ---- C10 ------------------------------------------------------------------
\* C10: on a vector sorted ascending with duplicate keys allowed, a probe
\* that occurs is found at its highest position; upsert then replaces that
\* last duplicate and leaves the earlier ones in place.
C10_LastDuplicateFound ==
    /\ (Returned /\ Sorted(pre) /\ Matches(pre, key) # {}) =>
          result = Ok(Max(Matches(pre, key)))
    /\ (Upserted /\ Sorted(pre) /\ Matches(pre, key) # {}) =>
          /\ Len(obj) = Len(pre)
          /\ \A i \in 0..(Len(pre) - 1) :
                At(obj, i) = IF i = Max(Matches(pre, key))
                             THEN KeyValue(key, val)
                             ELSE At(pre, i)

\* the last of several duplicates was replaced, an earlier one kept
C10_Witness ==
    /\ Upserted
    /\ Sorted(pre)
    /\ Cardinality(Matches(pre, key)) >= 2
    /\ \E i \in Matches(pre, key) : value_ref(At(obj, i)) # val
    /\ value_ref(At(pre, Max(Matches(pre, key)))) # val

====
